---- MODULE Spec2Model ----
(***************************************************************************)
(* The front end of type-stack: typeStack() of src/src/index.ts, the        *)
(* recursive-descent Parser (class Parser) and the stack-type verification *)
(* pass it runs at the end of parse() (#checkFunctions / traverse).        *)
(*                                                                         *)
(* The call stack of #parseStatement is the variable frames; one action    *)
(* is one iteration of its dispatch loop (or of the parameter loop of a    *)
(* fn header).  The cursor is 0-based as in the source, so the token under *)
(* the cursor is tokens[pointer + 1].                                      *)
(***************************************************************************)
EXTENDS Integers, Sequences, FiniteSets, TLC

VARIABLES
    tokens,        \* Parser.tokens
    pointer,       \* Parser.pointer
    functions,     \* Parser.functions (the shared function table)
    newFunctions,  \* Parser.newFunctions
    program,       \* Parser.program
    frames,        \* the activations of #parseStatement, innermost last
    decl,          \* locals of the fn header being parsed (name, params, ...)
    fnIndex,       \* position of the for-of loop of #checkFunctions
    visits,        \* the items traverse has looked at, in order
    result,        \* what parse() returned (or the exception it threw)
    fired,         \* the errors typeStack has fired, by the pass they are of
    cursor,        \* the last step: the values this.pointer was given and
                   \* the values it had when #peek was called
    prototype,     \* the prototype of the function table
    calls,         \* the calls of typeStack made so far in this process
    pc             \* where typeStack and parse() are

vars == <<tokens, pointer, functions, newFunctions, program, frames, decl,
          fnIndex, visits, result, fired, cursor, prototype, calls, pc>>

----------------------------------------------------------------------------
(* Tokens.  TokenType and Token come from scan.ts; the parser reads type,  *)
(* value, startPos and endPos.  Values are kept as their source text.      *)

Tok(type, value) == [type |-> type, value |-> value]

OpenBracket  == Tok("OpenBracket", "{")
CloseBracket == Tok("CloseBracket", "}")
OpenParen    == Tok("OpenParen", "(")
CloseParen   == Tok("CloseParen", ")")
Colon        == Tok("Colon", ":")
Kw(v)        == Tok("Keyword", v)
Id(v)        == Tok("Identifier", v)
IntLit       == Tok("Int", "1")
FloatLit     == Tok("Float", "1.5")
StrLit       == Tok("Str", "s")
BoolLit      == Tok("Bool", "true")

\* The scanner's positions: every token on line 1, two columns wide, one
\* blank between tokens.
Place(ts) ==
    [i \in 1..Len(ts) |->
        [type     |-> ts[i].type,
         value    |-> ts[i].value,
         startPos |-> [line |-> 1, char |-> 3 * i - 2],
         endPos   |-> [line |-> 1, char |-> 3 * i - 1]]]

----------------------------------------------------------------------------
(* Results of parse().                                                     *)

None      == [kind |-> "none"]
Void      == [kind |-> "void"]
\* new Error(${line}:${char} <message>): the position, the fixed text of
\* the message (without its backquotes) and the token value interpolated
\* into it ("" when none).
Err(pos, message, value) ==
    [kind |-> "Error", line |-> pos.line, char |-> pos.char,
     message |-> message, value |-> value]
\* latestToken is undefined in #peek: reading .endPos throws.
TypeError == [kind |-> "TypeError"]

----------------------------------------------------------------------------
(* Cursor primitives.                                                      *)

isAtEnd(p) == p >= Len(tokens)

\* #peek throws when it is called at the end and tokens[pointer - 1] does
\* not exist.
peekThrows(p) == isAtEnd(p) /\ (p < 1 \/ p > Len(tokens))

peek(p) ==
    IF isAtEnd(p)
    THEN [type     |-> "CloseBracket",
          startPos |-> [line |-> tokens[p].endPos.line,
                        char |-> tokens[p].endPos.char + 1],
          endPos   |-> [line |-> tokens[p].endPos.line,
                        char |-> tokens[p].endPos.char + 1],
          value    |-> ""]
    ELSE tokens[p + 1]

\* #expect(type, value?) from cursor p: the cursor it leaves and its answer.
\* value = "" stands for the omitted argument.
expect(p, type, value) ==
    [pointer |-> p + 1,
     ok      |-> /\ ~isAtEnd(p + 1)
                 /\ peek(p + 1).type = type
                 /\ (value = "" \/ value = peek(p + 1).value)]

\* new Error(${this.#peek().startPos.line}:... <message>) at cursor p.
ErrorAtPeek(p, message) ==
    IF peekThrows(p) THEN TypeError ELSE Err(peek(p).startPos, message, "")

\* new Error(${current.startPos.line}:... <message> ${current.value}).
ErrorAtToken(t, message) == Err(t.startPos, message, t.value)

\* The cursor moves and the #peek calls of a step.
Trail(moved, peeked) == [moved |-> moved, peeked |-> peeked]
Idle == Trail({}, {})
Join(a, b) == Trail(a.moved \cup b.moved, a.peeked \cup b.peeked)

\* Those of #expect from cursor p: the increment, and the #peek it makes
\* when the cursor is not at the end.
expectTrail(p) == Trail({p + 1}, IF isAtEnd(p + 1) THEN {} ELSE {p + 1})

\* Those of #expect(TokenType.OpenBracket) from cursor p and of what follows
\* it: the error at #peek(), or the nested #parseStatement, which reads
\* #peek().startPos and increments.
openBlockTrail(p) ==
    Join(expectTrail(p),
         IF expect(p, "OpenBracket", "").ok
         THEN Trail({p + 2}, {p + 1})
         ELSE Trail({}, {p + 1}))

\* Those of a keyword that wants the keyword loop and then a block.
loopBlockTrail(p) ==
    Join(Join(Trail({}, {p}), expectTrail(p)),
         IF expect(p, "Keyword", "loop").ok
         THEN openBlockTrail(p + 1)
         ELSE Trail({}, {p + 1}))

----------------------------------------------------------------------------
(* StackType (stack.ts) and the objects used as maps.                      *)

StackTypes == {"Int", "Float", "Str", "Bool", "Any"}

\* An object literal {} : no own keys.
EmptyObject == [k \in {} |-> "Any"]

\* Keys every object literal inherits from Object.prototype: the in
\* operator of traverse answers true for them.
ObjectPrototypeKeys ==
    {"constructor", "toString", "toLocaleString", "valueOf", "hasOwnProperty",
     "isPrototypeOf", "propertyIsEnumerable", "__proto__",
     "__defineGetter__", "__defineSetter__", "__lookupGetter__",
     "__lookupSetter__"}

\* Object.prototype, the prototype of every object literal: its keys, each
\* with the inherited function object, which is no StackType.
ObjectPrototype == [k \in ObjectPrototypeKeys |-> "Object.prototype." \o k]

\* obj[key] = v: the own keys of obj afterwards.  The key __proto__ is the
\* accessor inherited from Object.prototype: the assignment makes no own key.
SetKey(obj, key, v) ==
    IF key = "__proto__" THEN obj ELSE (key :> v) @@ obj

\* obj[key] = v, with v an object: the prototype of obj afterwards, given
\* the one it had.  (A v that is no object, such as a StackType, leaves the
\* prototype alone: the parameter mappings keep Object.prototype.)
SetPrototype(proto, key, v) ==
    IF key = "__proto__" THEN v ELSE proto

\* The type keywords of a parameter annotation and of a function type.
ParamTypeOf(v) ==
    CASE v = "int"   -> "Int"
      [] v = "float" -> "Float"
      [] v = "str"   -> "Str"
      [] v = "bool"  -> "Bool"
      [] v = "any"   -> "Any"

FunctionTypeOf(v) ==
    CASE v = "@int"   -> "Int"
      [] v = "@float" -> "Float"
      [] v = "@str"   -> "Str"
      [] v = "@bool"  -> "Bool"
      [] v = "@any"   -> "Any"

----------------------------------------------------------------------------
(* Activations of #parseStatement.                                         *)

\* The cursor after the entry of #parseStatement.
Entered(isInRoot, p) == IF isInRoot THEN p ELSE p + 1

\* As parseStatement below, with startPos read after the cursor has moved.
parseStatementLate(isInRoot, isInLoop, isInIf, isInFunction, p, caller) ==
    [isInRoot     |-> isInRoot,
     isInLoop     |-> isInLoop,
     isInIf       |-> isInIf,
     isInFunction |-> isInFunction,
     startPos     |-> peek(Entered(isInRoot, p)).startPos,
     block        |-> <<>>,
     caller       |-> caller]

\* #parseStatement(isInRoot, isInLoop, isInIf, isInFunction) entered with the
\* cursor at p: startPos is read before the cursor moves past the {.
\* caller holds the locals of the calling activation that outlive the call.
parseStatement(isInRoot, isInLoop, isInIf, isInFunction, p, caller) ==
    [isInRoot     |-> isInRoot,
     isInLoop     |-> isInLoop,
     isInIf       |-> isInIf,
     isInFunction |-> isInFunction,
     startPos     |-> peek(p).startPos,
     block        |-> <<>>,
     caller       |-> caller]

Top     == frames[Len(frames)]
Popped  == SubSeq(frames, 1, Len(frames) - 1)
current == peek(pointer)

\* block.push(item) in the innermost activation of fs.
Push(fs, item) == [fs EXCEPT ![Len(fs)].block = Append(@, item)]

Dispatching == pc = "block" /\ ~isAtEnd(pointer)

\* As Fail below, with the block of the root activation stored in program
\* before the error is returned.
FailKeepingBlock(e, p) ==
    /\ result' = e
    /\ pointer' = p
    /\ pc' = "done"
    /\ program' = frames[1].block
    /\ UNCHANGED <<calls, fired, tokens, functions, prototype, newFunctions,
                   frames, decl, fnIndex, visits>>

\* return new Error(...): parse() returns it.
Fail(e, p) ==
    /\ result' = e
    /\ pointer' = p
    /\ pc' = "done"
    /\ UNCHANGED <<calls, fired, tokens, functions, prototype, newFunctions,
                   program, frames, decl, fnIndex, visits>>

\* return new Error(...) in the activation that called #parseStatement for
\* a block, after that call has returned: the innermost activation is gone.
FailInCaller(e, p) ==
    /\ result' = e
    /\ pointer' = p
    /\ pc' = "done"
    /\ frames' = Popped
    /\ UNCHANGED <<calls, fired, tokens, functions, prototype, newFunctions,
                   program, decl, fnIndex, visits>>

\* block.push(current as Expression); this.#increment(); continue
\* (the cast is a compile-time one: the node is the token itself)
Accept ==
    /\ frames' = Push(frames, current)
    /\ pointer' = pointer + 1
    /\ UNCHANGED <<calls, fired, tokens, functions, prototype, newFunctions,
                   program, decl, fnIndex, visits, result, pc>>

\* A nested block entered after a successful #expect(OpenBracket) at cursor p.
Enter(isInLoop, isInIf, isInFunction, p, caller) ==
    /\ frames' = Append(frames,
           parseStatement(FALSE, isInLoop, isInIf, isInFunction, p, caller))
    /\ pointer' = Entered(FALSE, p)
    /\ pc' = "block"
    /\ UNCHANGED <<calls, fired, tokens, functions, prototype, newFunctions,
                   program, fnIndex, visits, result>>

----------------------------------------------------------------------------
(* parse(): the call of #parseStatement(true).                             *)

ParseCall ==
    /\ pc = "start"
    /\ IF peekThrows(0)
       THEN /\ result' = TypeError
            /\ pc' = "done"
            /\ UNCHANGED frames
       ELSE /\ frames' = <<parseStatement(TRUE, FALSE, FALSE, FALSE, 0,
                                          [site |-> "parse"])>>
            /\ pc' = "block"
            /\ UNCHANGED result
    /\ UNCHANGED <<calls, fired, tokens, pointer, functions, prototype,
                   newFunctions, program, decl, fnIndex, visits>>
    /\ cursor' = Trail({}, {pointer})

(* The dispatch loop of #parseStatement, one token kind per action.        *)

UnexpectedCharacter ==
    /\ Dispatching
    /\ current.type \in {"OpenBracket", "CloseParen", "OpenParen", "Colon"}
    /\ Fail(ErrorAtToken(current, "Unexpected character"), pointer)
    /\ cursor' = Trail({}, {pointer})

LiteralOrIdentifier ==
    /\ Dispatching
    /\ current.type \in {"Int", "Float", "Str", "Bool", "Identifier"}
    /\ Accept
    /\ cursor' = Trail({pointer + 1}, {pointer})

CastKeyword ==
    /\ Dispatching
    /\ current.type = "Keyword"
    /\ current.value \in {"int", "bool", "str", "float"}
    /\ Accept
    /\ cursor' = Trail({pointer + 1}, {pointer})

FunctionTypeKeyword ==
    /\ Dispatching
    /\ current.type = "Keyword"
    /\ current.value \in {"@int", "@bool", "@str", "@float", "@any"}
    /\ Fail(ErrorAtToken(current, "Unexpected keyword"), pointer)
    /\ cursor' = Trail({}, {pointer})

ElseKeyword ==
    /\ Dispatching
    /\ current.type = "Keyword"
    /\ current.value = "else"
    /\ Fail(ErrorAtToken(current, "Unexpected keyword else"), pointer)
    /\ cursor' = Trail({}, {pointer})

AnyKeyword ==
    /\ Dispatching
    /\ current.type = "Keyword"
    /\ current.value = "any"
    /\ IF Top.isInFunction
       THEN Accept
       ELSE Fail(ErrorAtToken(current, "Unexpected keyword any"), pointer)
    /\ cursor' = Trail(IF Top.isInFunction THEN {pointer + 1} ELSE {}, {pointer})

BreakKeyword ==
    /\ Dispatching
    /\ current.type = "Keyword"
    /\ current.value = "break"
    /\ IF Top.isInLoop
       THEN Accept
       ELSE Fail(ErrorAtToken(current, "Unexpected keyword break"), pointer)
    /\ cursor' = Trail(IF Top.isInLoop THEN {pointer + 1} ELSE {}, {pointer})

ContinueKeyword ==
    /\ Dispatching
    /\ current.type = "Keyword"
    /\ current.value = "continue"
    /\ IF Top.isInLoop
       THEN Accept
       ELSE Fail(ErrorAtToken(current, "Unexpected keyword continue"),
                 pointer)
    /\ cursor' = Trail(IF Top.isInLoop THEN {pointer + 1} ELSE {}, {pointer})

\* The calls of #parseStatement pass (false, isInIf, isInFunction, true) to
\* the parameters (isInRoot, isInLoop, isInIf, isInFunction).
LoopKeyword ==
    /\ Dispatching
    /\ current.type = "Keyword"
    /\ current.value = "loop"
    /\ LET e == expect(pointer, "OpenBracket", "") IN
       IF ~e.ok
       THEN Fail(ErrorAtPeek(e.pointer,
                 "Expected an opening bracket ({) after a loop statement"),
                 e.pointer)
       ELSE /\ Enter(Top.isInIf, Top.isInFunction, TRUE, e.pointer,
                     [site |-> "loop", type |-> "Loop"])
            /\ UNCHANGED decl
    /\ cursor' = Join(Trail({}, {pointer}), openBlockTrail(pointer))

ForKeyword ==
    /\ Dispatching
    /\ current.type = "Keyword"
    /\ current.value = "for"
    /\ LET e1 == expect(pointer, "Keyword", "loop")
           e2 == expect(e1.pointer, "OpenBracket", "") IN
       IF ~e1.ok
       THEN Fail(ErrorAtPeek(e1.pointer,
                 "Expected a loop keyword after a for keyword"),
                 e1.pointer)
       ELSE IF ~e2.ok
       THEN Fail(ErrorAtPeek(e2.pointer,
                 "Expected an opening bracket ({) after a for loop statement"),
                 e2.pointer)
       ELSE /\ Enter(Top.isInIf, Top.isInFunction, TRUE, e2.pointer,
                     [site |-> "loop", type |-> "ForLoop"])
            /\ UNCHANGED decl
    /\ cursor' = loopBlockTrail(pointer)

WhileKeyword ==
    /\ Dispatching
    /\ current.type = "Keyword"
    /\ current.value = "while"
    /\ LET e1 == expect(pointer, "Keyword", "loop")
           e2 == expect(e1.pointer, "OpenBracket", "") IN
       IF ~e1.ok
       THEN Fail(ErrorAtPeek(e1.pointer,
                 "Expected a loop keyword after a while keyword"),
                 e1.pointer)
       ELSE IF ~e2.ok
       THEN Fail(ErrorAtPeek(e2.pointer,
                 "Expected an opening bracket ({) after a while loop statement"),
                 e2.pointer)
       ELSE /\ Enter(Top.isInIf, Top.isInFunction, TRUE, e2.pointer,
                     [site |-> "loop", type |-> "WhileLoop"])
            /\ UNCHANGED decl
    /\ cursor' = loopBlockTrail(pointer)

\* #parseStatement(false, true, isInFunction, isInLoop)
IfKeyword ==
    /\ Dispatching
    /\ current.type = "Keyword"
    /\ current.value = "if"
    /\ LET e == expect(pointer, "OpenBracket", "") IN
       IF ~e.ok
       THEN Fail(ErrorAtPeek(e.pointer,
                 "Expected an opening bracket ({) after an if statement"),
                 e.pointer)
       ELSE /\ Enter(TRUE, Top.isInFunction, Top.isInLoop, e.pointer,
                     [site |-> "if"])
            /\ UNCHANGED decl
    /\ cursor' = Join(Trail({}, {pointer}), openBlockTrail(pointer))

\* The two last returns of the dispatch loop: a keyword, or a token type,
\* that no branch above names.
UnknownKeyword ==
    /\ Dispatching
    /\ current.type = "Keyword"
    /\ current.value \notin
           {"int", "bool", "str", "float", "@int", "@bool", "@str", "@float",
            "@any", "else", "any", "break", "continue", "loop", "for",
            "while", "if", "fn"}
    /\ Fail(ErrorAtToken(current, "Unknown keyword"), pointer)
    /\ cursor' = Trail({}, {pointer})

UnknownToken ==
    /\ Dispatching
    /\ current.type \notin
           {"OpenBracket", "CloseParen", "OpenParen", "Colon", "Int", "Float",
            "Str", "Bool", "Identifier", "CloseBracket", "Keyword"}
    /\ Fail(ErrorAtToken(current, "Unknown token"), pointer)
    /\ cursor' = Trail({}, {pointer})

(* A closing bracket: the activation returns its block to its caller.      *)

\* At root level there is no caller activation: parse() gets the block.
CloseBracketInRoot ==
    /\ Dispatching
    /\ current.type = "CloseBracket"
    /\ Top.caller.site = "parse"
    /\ pointer' = pointer + 1
    /\ program' = Top.block
    /\ frames' = Popped
    /\ pc' = "check"
    /\ UNCHANGED <<calls, fired, tokens, functions, prototype, newFunctions,
                   decl, fnIndex, visits, result>>
    /\ cursor' = Trail({pointer + 1}, {pointer})

\* block.push({type: StatementType.Loop | ForLoop | WhileLoop, block: innerBlock})
CloseBracketOfLoop ==
    /\ Dispatching
    /\ current.type = "CloseBracket"
    /\ Top.caller.site = "loop"
    /\ pointer' = pointer + 1
    /\ frames' = Push(Popped, [type |-> Top.caller.type, block |-> Top.block])
    /\ UNCHANGED <<calls, fired, tokens, functions, prototype, newFunctions,
                   program, decl, fnIndex, visits, result, pc>>
    /\ cursor' = Trail({pointer + 1}, {pointer})

\* As elseLookahead below, without the rewind of the cursor.
elseLookaheadWithoutRewind(p) == expect(p, "Keyword", "else")

\* this.pointer -= 1; this.#expect(TokenType.Keyword, "else"), with p the
\* cursor the then-block left.
elseLookahead(p) == expect(p - 1, "Keyword", "else")

\* The then-block of an if is closed: look for else.
CloseBracketOfIf ==
    /\ Dispatching
    /\ current.type = "CloseBracket"
    /\ Top.caller.site = "if"
    /\ LET e1 == elseLookahead(pointer + 1)
           e2 == expect(e1.pointer, "OpenBracket", "")
           outer == Popped[Len(Popped)] IN
       IF e1.ok /\ ~e2.ok
       THEN FailInCaller(ErrorAtPeek(e2.pointer,
                 "Expected an opening bracket ({) after an else statement"),
                 e2.pointer)
       ELSE IF e1.ok
       THEN /\ frames' = Append(Popped,
                  parseStatement(FALSE, TRUE, outer.isInFunction,
                                 outer.isInLoop, e2.pointer,
                                 [site |-> "else", innerBlock |-> Top.block]))
            /\ pointer' = Entered(FALSE, e2.pointer)
            /\ UNCHANGED <<calls, fired, tokens, functions, prototype,
                           newFunctions, program, decl, fnIndex, visits,
                           result, pc>>
       ELSE /\ frames' = Push(Popped, [type |-> "If", block |-> Top.block])
            /\ pointer' = e1.pointer
            /\ UNCHANGED <<calls, fired, tokens, functions, prototype,
                           newFunctions, program, decl, fnIndex, visits,
                           result, pc>>
    /\ cursor' =
         LET e1 == elseLookahead(pointer + 1) IN
         Join(Trail({pointer + 1, e1.pointer - 1, e1.pointer},
                    {pointer} \cup
                    IF isAtEnd(e1.pointer) THEN {} ELSE {e1.pointer}),
              IF e1.ok THEN openBlockTrail(e1.pointer) ELSE Idle)

\* block.push({type: StatementType.If, block: innerBlock, else: elseBlock})
CloseBracketOfElse ==
    /\ Dispatching
    /\ current.type = "CloseBracket"
    /\ Top.caller.site = "else"
    /\ pointer' = pointer + 1
    /\ frames' = Push(Popped, [type  |-> "If",
                               block |-> Top.caller.innerBlock,
                               else  |-> Top.block])
    /\ UNCHANGED <<calls, fired, tokens, functions, prototype, newFunctions,
                   program, decl, fnIndex, visits, result, pc>>
    /\ cursor' = Trail({pointer + 1}, {pointer})

\* this.newFunctions.push(name); this.functions[name] = {stack, params, body}
CloseBracketOfFunction ==
    /\ Dispatching
    /\ current.type = "CloseBracket"
    /\ Top.caller.site = "fn"
    /\ pointer' = pointer + 1
    /\ newFunctions' = Append(newFunctions, Top.caller.name)
    /\ LET fn == [stack  |-> Top.caller.functionType,
                  params |-> Top.caller.params,
                  body   |-> Top.block] IN
       /\ functions' = SetKey(functions, Top.caller.name, fn)
       /\ prototype' = SetPrototype(prototype, Top.caller.name, fn)
    /\ frames' = Popped
    /\ UNCHANGED <<calls, fired, tokens, program, decl, fnIndex, visits,
                   result, pc>>
    /\ cursor' = Trail({pointer + 1}, {pointer})

\* The dispatch loop ends because the cursor is at the end of the tokens.
EndOfInput ==
    /\ pc = "block"
    /\ isAtEnd(pointer)
    /\ IF ~Top.isInRoot
       THEN Fail(Err(Top.startPos, "Expected ending bracket pair", ""),
                 pointer)
       ELSE /\ program' = Top.block
            /\ frames' = Popped
            /\ pc' = "check"
            /\ UNCHANGED <<calls, fired, tokens, pointer, functions,
                           prototype, newFunctions, decl, fnIndex, visits,
                           result>>
    /\ cursor' = Idle

----------------------------------------------------------------------------
(* A fn declaration: header, parameter loop, function type, body.          *)

NoDecl == [name |-> ""]

\* As nested below, testing the flag of function bodies instead.
nestedInFunction(frame) == frame.isInFunction

\* if(!isInRoot): the fn keyword is met in a nested block.
nested(frame) == ~frame.isInRoot

FnKeyword ==
    /\ Dispatching
    /\ current.type = "Keyword"
    /\ current.value = "fn"
    /\ LET e1 == expect(pointer, "Identifier", "")
           e2 == expect(e1.pointer, "OpenParen", "") IN
       IF nested(Top)
       THEN Fail(ErrorAtToken(current,
                 "Function declarations must not be nestles in other statements"),
                 pointer)
       ELSE IF ~e1.ok
       THEN Fail(ErrorAtPeek(e1.pointer,
                 "Expected a identifier after a fn keyword"), e1.pointer)
       ELSE IF ~e2.ok
       THEN Fail(ErrorAtPeek(e2.pointer,
                 "Expected an opening parenthesis (() after a function identifier"),
                 e2.pointer)
       ELSE /\ decl' = [name          |-> peek(e1.pointer).value,
                        parenStartPos |-> peek(e2.pointer).startPos,
                        params        |-> EmptyObject]
            /\ pointer' = e2.pointer
            /\ pc' = "params"
            /\ UNCHANGED <<calls, fired, tokens, functions, prototype,
                           newFunctions, program, frames, fnIndex, visits,
                           result>>
    /\ cursor' =
         IF nested(Top)
         THEN Trail({}, {pointer})
         ELSE IF ~expect(pointer, "Identifier", "").ok
         THEN Trail({pointer + 1}, {pointer, pointer + 1})
         ELSE Trail({pointer + 1, pointer + 2},
                    {pointer, pointer + 1, pointer + 2})

\* As paramLoopTest below, without the test for the end of the tokens.
paramLoopTestUnguarded(p) ==
    [enter |-> ~expect(p, "CloseParen", "").ok,
     pointer |-> expect(p, "CloseParen", "").pointer]

\* while(!this.#isAtEnd() && !this.#expect(TokenType.CloseParen)): whether
\* the body is entered, and the cursor the test leaves.
paramLoopTest(p) ==
    IF isAtEnd(p)
    THEN [enter |-> FALSE, pointer |-> p]
    ELSE [enter |-> ~expect(p, "CloseParen", "").ok,
          pointer |-> expect(p, "CloseParen", "").pointer]

\* As unreadColon below, stepping back one token too many.
unreadColonTwice(p) == p - 2

\* else { this.pointer -= 1; ... }: the token that is no colon is given back.
unreadColon(p) == p - 1

\* One iteration of the parameter loop.
Parameter ==
    /\ pc = "params"
    /\ paramLoopTest(pointer).enter
    /\ LET e1 == expect(paramLoopTest(pointer).pointer - 1, "Identifier", "")
           name == peek(e1.pointer).value
           e2 == expect(e1.pointer, "Colon", "")
           p3 == e2.pointer + 1 IN
       IF ~e1.ok
       THEN Fail(ErrorAtPeek(e1.pointer,
                 "Expected an identifier or parenthesis (() after a opening parenthesis (() of a function"),
                 e1.pointer)
       ELSE /\ IF e2.ok
               THEN /\ pointer' = p3
                    /\ decl' =
                         IF /\ peek(p3).type = "Keyword"
                            /\ peek(p3).value \in
                                 {"int", "str", "float", "bool", "any"}
                         THEN [decl EXCEPT !.params =
                                 SetKey(@, name, ParamTypeOf(peek(p3).value))]
                         ELSE decl
               ELSE /\ pointer' = unreadColon(e2.pointer)
                    /\ decl' = [decl EXCEPT !.params = SetKey(@, name, "Any")]
            /\ UNCHANGED <<calls, fired, tokens, functions, prototype,
                           newFunctions, program, frames, fnIndex, visits,
                           result, pc>>
    /\ cursor' =
         LET t  == paramLoopTest(pointer).pointer
             e1 == expect(t - 1, "Identifier", "")
             e2 == expect(e1.pointer, "Colon", "")
             test == Trail({t, t - 1, e1.pointer},
                           (IF isAtEnd(t) THEN {} ELSE {t}) \cup {e1.pointer})
         IN
         IF ~e1.ok THEN test
         ELSE IF e2.ok
         THEN Join(test, Trail({e2.pointer, e2.pointer + 1},
                               {e2.pointer, e2.pointer + 1}))
         ELSE Join(test, Join(expectTrail(e1.pointer),
                              Trail({unreadColon(e2.pointer)}, {})))

\* The token at cursor p is a function type keyword.
functionTypeAt(p) ==
    /\ ~isAtEnd(p)
    /\ peek(p).type = "Keyword"
    /\ peek(p).value \in {"@int", "@str", "@float", "@bool", "@any"}

\* The parameter loop is left: function type, opening bracket, body.
\* #parseStatement(false, isInIf, true, isInLoop)
FunctionType ==
    /\ pc = "params"
    /\ ~paramLoopTest(pointer).enter
    /\ LET p  == paramLoopTest(pointer).pointer
           p1 == p + 1
           e  == expect(p1, "OpenBracket", "") IN
       IF isAtEnd(p)
       THEN Fail(Err(decl.parenStartPos, "Expected ending parenthesis pair", ""),
                 p)
       ELSE IF ~functionTypeAt(p1)
       THEN Fail(ErrorAtPeek(p1,
                 "Expected a function type (@int, @str, @float, @bool, @any) after a function declaration"),
                 p1)
       ELSE IF ~e.ok
       THEN Fail(ErrorAtPeek(e.pointer,
                 "Expected an opening bracket ({) after a function declaration"),
                 e.pointer)
       ELSE /\ Enter(Top.isInIf, TRUE, Top.isInLoop, e.pointer,
                     [site         |-> "fn",
                      name         |-> decl.name,
                      params       |-> decl.params,
                      functionType |-> FunctionTypeOf(peek(p1).value)])
            /\ decl' = NoDecl
    /\ cursor' =
         LET p == paramLoopTest(pointer).pointer IN
         IF isAtEnd(p) THEN Trail({p} \ {pointer}, {})
         ELSE Join(Trail({p, p + 1}, {p, p + 1}),
                   IF functionTypeAt(p + 1) THEN openBlockTrail(p + 1)
                   ELSE Idle)

----------------------------------------------------------------------------
(* #checkFunctions and traverse.                                           *)

\* key in obj, for an object whose prototype is Object.prototype
In(key, obj) == key \in DOMAIN obj \/ key \in ObjectPrototypeKeys

\* otherIdentifiers[value]: an inherited key yields the inherited function
\* object, which is no StackType.
Lookup(obj, key) ==
    IF key \in DOMAIN obj THEN obj[key] ELSE "Object.prototype." \o key

\* value in this.functions: an own key, or a key the table inherits from
\* its prototype and, through it, from Object.prototype.
InFunctions(key) ==
    \/ key \in DOMAIN functions
    \/ key \in DOMAIN prototype
    \/ key \in ObjectPrototypeKeys

\* this.functions[fn] for a name of newFunctions: the own key, or, for the
\* name __proto__, the prototype its declaration gave the table.
Function(key) ==
    IF key = "__proto__" THEN prototype ELSE functions[key]

\* this.functions[value].stack: undefined for an inherited key, but for
\* __proto__ when the prototype is a declared function, and for params when
\* that function has a parameter named stack.
FunctionStack(key) ==
    IF key \in DOMAIN functions THEN functions[key].stack
    ELSE IF key = "__proto__" /\ "stack" \in DOMAIN prototype
    THEN prototype.stack
    ELSE IF /\ key = "params"
            /\ "params" \in DOMAIN prototype
            /\ "stack" \in DOMAIN prototype.params
    THEN prototype.params["stack"]
    ELSE "undefined"

\* The call check of an identifier that is in this.functions.
CallAllowed(key, stack) ==
    ~(FunctionStack(key) # stack /\ FunctionStack(key) # "Any")

\* The switch over a keyword Expression.
KeywordStack(value, stack) ==
    CASE value = "int"   -> "Int"
      [] value = "float" -> "Float"
      [] value = "str"   -> "Str"
      [] value = "bool"  -> "Bool"
      [] value = "any"   -> "Any"
      [] OTHER           -> stack

\* The block traversed for secondBlock when the If has an else.
SecondBlock(item) == item.block

\* As BodyStack below, with every body verified from the stack carried in.
BodyStackCarried(type, stack) == stack

\* As BodyStack below, with the body of a Loop verified from Int.
BodyStackOfCounter(type, stack) ==
    IF type \in {"WhileLoop", "If"} THEN "Bool" ELSE "Int"

\* The stack handed to the traverse of the block of a Statement.
BodyStack(type, stack) ==
    CASE type = "Loop"      -> stack
      [] type = "ForLoop"   -> "Int"
      [] type = "WhileLoop" -> "Bool"
      [] type = "If"        -> "Bool"

\* The stack after a Statement whose blocks returned no error.
StatementStack(type, stack) ==
    CASE type = "Loop"      -> stack
      [] type = "ForLoop"   -> "Int"
      [] type = "WhileLoop" -> "Bool"
      [] type = "If"        -> "Bool"

\* What traverse did with one item: its place in the program traversed, the
\* stack before and after it, and the error it returned for it (Void when
\* none).  console.log(item, stack) prints item and after for every entry
\* without an error.  depth counts the Statements around the item.
Visit(item, index, ids, before, after, error) ==
    [item |-> item, index |-> index, depth |-> 0, ids |-> ids,
     before |-> before, after |-> after, error |-> error]

\* The visits of a nested traverse, seen from the call one level up.
Deeper(vs) == [k \in 1..Len(vs) |-> [vs[k] EXCEPT !.depth = @ + 1]]

RECURSIVE traverseFrom(_, _, _, _)

\* traverse(program, otherIdentifiers, stack): the error it returns (Void
\* when none) and the visits it makes.
traverse(prog, otherIdentifiers, stack) ==
    traverseFrom(prog, 1, otherIdentifiers, stack)

\* The identifier branch of traverse: the error returned and the stack left.
Identifier(item, ids, stack) ==
    IF In(item.value, ids)
    THEN [error |-> Void, stack |-> Lookup(ids, item.value)]
    ELSE IF InFunctions(item.value)
    THEN IF ~CallAllowed(item.value, stack)
         THEN [error |-> Err(item.startPos,
                             "Attempt to call function not found at stack",
                             item.value),
               stack |-> stack]
         ELSE [error |-> Void, stack |-> stack]
    ELSE [error |-> Err(item.startPos, "Undeclared identifier", item.value),
          stack |-> stack]

\* One item of the for-of loop: the error returned for it, the stack after
\* it and the visits made inside it.
TraverseItem(item, ids, stack) ==
    IF "value" \in DOMAIN item
    THEN IF item.type = "Identifier"
         THEN [error  |-> Identifier(item, ids, stack).error,
               stack  |-> Identifier(item, ids, stack).stack,
               visits |-> <<>>]
         ELSE IF item.type = "Keyword"
         THEN [error |-> Void, stack |-> KeywordStack(item.value, stack),
               visits |-> <<>>]
         ELSE IF item.type \in {"Int", "Float", "Str", "Bool"}
         THEN [error |-> Void, stack |-> item.type, visits |-> <<>>]
         ELSE [error |-> Void, stack |-> stack, visits |-> <<>>]
    ELSE IF item.type \in {"Loop", "ForLoop", "WhileLoop"}
    THEN LET r == traverse(item.block, ids, BodyStack(item.type, stack)) IN
         [error  |-> r.error,
          stack  |-> StatementStack(item.type, stack),
          visits |-> Deeper(r.visits)]
    ELSE IF item.type = "If"
    THEN LET firstBlock ==
                 traverse(item.block, ids, BodyStack(item.type, stack)) IN
         IF "else" \in DOMAIN item
         THEN LET secondBlock ==
                      traverse(SecondBlock(item), ids,
                               BodyStack(item.type, stack)) IN
              [error  |-> IF secondBlock.error.kind = "Error"
                          THEN secondBlock.error ELSE firstBlock.error,
               stack  |-> StatementStack(item.type, stack),
               visits |-> Deeper(firstBlock.visits \o secondBlock.visits)]
         ELSE [error  |-> firstBlock.error,
               stack  |-> StatementStack(item.type, stack),
               visits |-> Deeper(firstBlock.visits)]
    ELSE [error |-> Void, stack |-> stack, visits |-> <<>>]

traverseFrom(prog, i, ids, stack) ==
    IF i > Len(prog)
    THEN [error |-> Void, visits |-> <<>>]
    ELSE LET r == TraverseItem(prog[i], ids, stack) IN
         IF r.error.kind = "Error"
         THEN [error  |-> r.error,
               visits |-> r.visits \o
                          <<Visit(prog[i], i, ids, stack, stack, r.error)>>]
         ELSE LET rest == traverseFrom(prog, i + 1, ids, r.stack) IN
              [error  |-> rest.error,
               visits |-> r.visits \o
                          <<Visit(prog[i], i, ids, stack, r.stack, Void)>> \o
                          rest.visits]

\* traverse.bind(this)(this.program, {}, StackType.Int)
CheckProgram ==
    /\ pc = "check"
    /\ LET r == traverse(program, EmptyObject, "Int") IN
       /\ visits' = visits \o r.visits
       /\ IF r.error.kind = "Error"
          THEN result' = r.error /\ pc' = "done"
          ELSE result' = result /\ pc' = "functions"
    /\ UNCHANGED <<calls, fired, tokens, pointer, functions, prototype,
                   newFunctions, program, frames, decl, fnIndex>>
    /\ cursor' = Idle

\* for(const fn of this.newFunctions): one function body.
CheckFunction ==
    /\ pc = "functions"
    /\ fnIndex <= Len(newFunctions)
    /\ LET fn == Function(newFunctions[fnIndex])
           r  == traverse(fn.body, fn.params, fn.stack) IN
       /\ visits' = visits \o r.visits
       /\ IF r.error.kind = "Error"
          THEN result' = r.error /\ pc' = "done"
          ELSE result' = result /\ pc' = "functions"
    /\ fnIndex' = fnIndex + 1
    /\ UNCHANGED <<calls, fired, tokens, pointer, functions, prototype,
                   newFunctions, program, frames, decl>>
    /\ cursor' = Idle

\* The loop is over: #checkFunctions and parse() return nothing.
CheckDone ==
    /\ pc = "functions"
    /\ fnIndex > Len(newFunctions)
    /\ result' = Void
    /\ pc' = "done"
    /\ UNCHANGED <<calls, fired, tokens, pointer, functions, prototype,
                   newFunctions, program, frames, decl, fnIndex, visits>>
    /\ cursor' = Idle

----------------------------------------------------------------------------
(* typeStack(input): scan, parse, typeCheck, interpret.  The scanner, the  *)
(* type checker, the interpreter and the errors with fire() are other      *)
(* modules; they are taken as described: scan() returns an error or leaves *)
(* the tokens, fire() of such an error reports it and returns, typeCheck   *)
(* is the stack-type verifier as its design describes it (every identifier *)
(* is a parameter of the context or an entry of the table, and both        *)
(* branches of an If are verified), which is not the traverse of parse(),  *)
(* and interpret may end with a run error.                                 *)

\* What scanner.scan() can answer.
ScanOutcomes == {"error", "tokens"}

\* scanner.scan(), then new Parser(scanner.tokens, standardLibraryFunctions).
Scan ==
    /\ pc = "scan"
    /\ \E outcome \in ScanOutcomes :
          IF outcome = "error"
          THEN fired' = Append(fired, "scan") /\ pc' = "returned"
          ELSE fired' = fired /\ pc' = "start"
    /\ UNCHANGED <<calls, tokens, pointer, functions, prototype,
                   newFunctions, program, frames, decl, fnIndex, visits,
                   result>>
    /\ cursor' = Idle

\* As afterParse below, with a fire() that reports the error and returns.
afterParseFired(kind) == "typeCheck"

\* if(parseError) { parseError.fire(); }: where typeStack goes on.  Every
\* error parse() returns is made by new Error(...), the built-in class,
\* which has no fire: the call throws a TypeError out of typeStack.
afterParse(kind) == IF kind = "Error" THEN "thrown" ELSE "typeCheck"

\* const parseError = parser.parse(); if(parseError) { parseError.fire(); }
\* An exception thrown by parse() itself ends typeStack, which is then left
\* at pc = "done".
ParseReturned ==
    /\ pc = "done"
    /\ result.kind \in {"void", "Error"}
    /\ pc' = afterParse(result.kind)
    /\ UNCHANGED <<calls, fired, tokens, pointer, functions, prototype,
                   newFunctions, program, frames, decl, fnIndex, visits,
                   result>>
    /\ cursor' = Idle

\* The name is an entry of the function table: a standard-library function
\* or a function a declaration inserted.
KnownFunction(name) == name \in DOMAIN functions

\* The identifier rule of the verifier: a name of the identifier context
\* replaces the current type by the declared type of the parameter; a known
\* function may be called when its declared type is the current type or
\* Any; any other name is undeclared.
VerifyIdentifier(item, identifierContext, currentType) ==
    IF item.value \in DOMAIN identifierContext
    THEN [error |-> Void, type |-> identifierContext[item.value]]
    ELSE IF KnownFunction(item.value)
    THEN IF functions[item.value].stack \in {currentType, "Any"}
         THEN [error |-> Void, type |-> currentType]
         ELSE [error |-> Err(item.startPos,
                             "Attempt to call function not found at stack",
                             item.value),
               type |-> currentType]
    ELSE [error |-> Err(item.startPos, "Undeclared identifier", item.value),
          type |-> currentType]

\* The type the verifier starts the body of a statement from: the type
\* carried in for a Loop, Int for a ForLoop, Bool for a WhileLoop and for
\* both branches of an If.
VerifyBodyType(type, currentType) ==
    CASE type = "Loop"      -> currentType
      [] type = "ForLoop"   -> "Int"
      [] type = "WhileLoop" -> "Bool"
      [] type = "If"        -> "Bool"

RECURSIVE verifyFrom(_, _, _, _)

\* The walk of the verifier over one block, left to right: the first error
\* found (Void when the block is accepted).
verify(prog, identifierContext, currentType) ==
    verifyFrom(prog, 1, identifierContext, currentType)

\* The rule of the verifier for one node: the first error found in it and
\* the current type after it.
VerifyItem(item, identifierContext, currentType) ==
    IF "value" \in DOMAIN item
    THEN IF item.type = "Identifier"
         THEN VerifyIdentifier(item, identifierContext, currentType)
         ELSE IF item.type = "Keyword"
         THEN [error |-> Void, type |-> KeywordStack(item.value, currentType)]
         ELSE IF item.type \in {"Int", "Float", "Str", "Bool"}
         THEN [error |-> Void, type |-> item.type]
         ELSE [error |-> Void, type |-> currentType]
    ELSE LET thenBlock == verify(item.block, identifierContext,
                            VerifyBodyType(item.type, currentType))
             after == IF item.type = "Loop" THEN currentType
                      ELSE VerifyBodyType(item.type, currentType) IN
         IF thenBlock.kind = "Error" \/ "else" \notin DOMAIN item
         THEN [error |-> thenBlock, type |-> after]
         ELSE [error |-> verify(item.else, identifierContext,
                                VerifyBodyType(item.type, currentType)),
               type  |-> after]

verifyFrom(prog, i, identifierContext, currentType) ==
    IF i > Len(prog)
    THEN Void
    ELSE LET r == VerifyItem(prog[i], identifierContext, currentType) IN
         IF r.error.kind = "Error"
         THEN r.error
         ELSE verifyFrom(prog, i + 1, identifierContext, r.type)

\* typeCheck(program, functions, newFunctions): the verifier, walking the
\* root program from Int with the empty identifier context and,
\* independently, the body of every newly declared function from its
\* declared type with its own parameters.  Its answer is the errors of
\* these walks.
typeCheck(prog, names) ==
    SelectSeq(
        <<verify(prog, EmptyObject, "Int")>> \o
        [k \in 1..Len(names) |->
            verify(Function(names[k]).body, Function(names[k]).params,
                   Function(names[k]).stack)],
        LAMBDA e : e.kind = "Error")

\* const typeErrors = typeCheck(...); if(typeErrors.length > 0) { fire each;
\* return; }
TypeCheck ==
    /\ pc = "typeCheck"
    /\ LET typeErrors == typeCheck(program, newFunctions) IN
       IF Len(typeErrors) > 0
       THEN /\ fired' = fired \o [k \in 1..Len(typeErrors) |-> "type"]
            /\ pc' = "returned"
       ELSE /\ fired' = fired
            /\ pc' = "interpret"
    /\ UNCHANGED <<calls, tokens, pointer, functions, prototype,
                   newFunctions, program, frames, decl, fnIndex, visits,
                   result>>
    /\ cursor' = Idle

\* const runError = interpret(parser.program, parser.functions);
\* if(isTSError(runError)) { runError.fire(); }
Interpret ==
    /\ pc = "interpret"
    /\ \E runError \in BOOLEAN :
          fired' = IF runError THEN Append(fired, "run") ELSE fired
    /\ pc' = "returned"
    /\ UNCHANGED <<calls, tokens, pointer, functions, prototype,
                   newFunctions, program, frames, decl, fnIndex, visits,
                   result>>
    /\ cursor' = Idle

----------------------------------------------------------------------------
(* Inputs: the token sequences handed to the constructor.                  *)

\* Longest sequence of fragments in the fragment family.
MaxFrags == 3

\* The pre-seeded table (functions.ts): the subtraction of the tests, which
\* the tests call on a Float stack, and one function of stack Any.
StandardLibraryFunctions ==
    ("-" :> [stack |-> "Float"]) @@ ("drop" :> [stack |-> "Any"])

\* Pieces of source text, as the tokens the scanner makes of them.
Fragments ==
    { <<IntLit>>,
      <<Kw("break")>>,
      <<Kw("continue")>>,
      <<Kw("any")>>,
      <<Kw("loop"), OpenBracket>>,
      <<Kw("for")>>,
      <<Kw("if"), OpenBracket>>,
      <<CloseBracket>>,
      <<Kw("else"), OpenBracket>>,
      <<Kw("else")>>,
      <<Kw("fn")>>,
      <<Kw("fn"), Id("f"), OpenParen, CloseParen, Kw("@int"), OpenBracket>> }

\* Every concatenation of at most n fragments.
RECURSIVE FragmentSeqs(_)
FragmentSeqs(n) ==
    IF n = 0 THEN {<<>>}
    ELSE FragmentSeqs(n - 1) \cup
         {s \o f : s \in FragmentSeqs(n - 1), f \in Fragments}

\* Well-formed programs: an optional literal, one statement around an
\* optional item, an optional call, and an optional declaration before or
\* after them.
Wrap(w, b) ==
    CASE w = "none"  -> b
      [] w = "loop"  -> <<Kw("loop"), OpenBracket>> \o b \o <<CloseBracket>>
      [] w = "for"   -> <<Kw("for"), Kw("loop"), OpenBracket>> \o b \o
                        <<CloseBracket>>
      [] w = "while" -> <<Kw("while"), Kw("loop"), OpenBracket>> \o b \o
                        <<CloseBracket>>
      [] w = "if"    -> <<Kw("if"), OpenBracket>> \o b \o <<CloseBracket>>
      [] w = "then"  -> <<Kw("if"), OpenBracket>> \o b \o
                        <<CloseBracket, Kw("else"), OpenBracket, CloseBracket>>
      [] w = "else"  -> <<Kw("if"), OpenBracket, CloseBracket, Kw("else"),
                          OpenBracket>> \o b \o <<CloseBracket>>

Wrappers == {"none", "loop", "for", "while", "if", "then", "else"}

Before == {<<>>, <<IntLit>>, <<FloatLit>>}

Inside ==
    {<<>>, <<IntLit>>, <<FloatLit>>, <<Id("-")>>, <<Id("drop")>>, <<Id("x")>>,
     <<Id("f")>>, <<Kw("break")>>, <<Kw("str")>>}

After == {<<>>, <<Id("-")>>, <<Id("drop")>>, <<Id("f")>>, <<Id("constructor")>>}

Fn(name, params, type, body) ==
    <<Kw("fn"), Id(name), OpenParen>> \o params \o <<CloseParen, Kw(type),
      OpenBracket>> \o body \o <<CloseBracket>>

Declarations ==
    { <<>>,
      Fn("f", <<>>, "@float", <<>>),
      Fn("f", <<Id("t")>>, "@any", <<Id("t"), Id("-")>>),
      Fn("f", <<Id("t"), Colon, Kw("float")>>, "@float",
         <<IntLit, Id("t"), Id("-")>>),
      Fn("f", <<Id("t"), Colon, Kw("int")>>, "@int",
         <<IntLit, Id("t"), Id("-")>>),
      Fn("f", <<Id("drop")>>, "@int", <<FloatLit, Id("drop"), Id("-")>>),
      Fn("constructor", <<>>, "@str", <<>>) }

Programs ==
    {a \o Wrap(w, b) \o c \o d :
        a \in Before, w \in Wrappers, b \in Inside, c \in After,
        d \in Declarations}
    \cup
    {d \o a \o Wrap(w, b) \o c :
        a \in Before, w \in Wrappers, b \in Inside, c \in After,
        d \in Declarations}

\* Two declarations in a row, of the same name or not, one of them of a
\* name of the standard library.
Redeclared ==
    { Fn("f", <<>>, "@int", <<IntLit>>),
      Fn("f", <<Id("t")>>, "@str", <<StrLit>>),
      Fn("g", <<>>, "@bool", <<>>),
      Fn("drop", <<>>, "@float", <<FloatLit>>) }

Redeclarations ==
    {d1 \o c \o d2 : d1 \in Redeclared, d2 \in Redeclared,
                      c \in {<<>>, <<Id("f")>>, <<Id("drop")>>}}

\* Longest parameter list, in tokens, of the parameter-list family.
MaxParamTokens == 3

\* The tokens a parameter list is made of, and one that has no place in it.
ParamTokens ==
    {Id("t"), Id("u"), Colon, Kw("int"), Kw("any"), IntLit, CloseParen}

RECURSIVE ParamLists(_)
ParamLists(n) ==
    IF n = 0 THEN {<<>>}
    ELSE ParamLists(n - 1) \cup
         {s \o <<t>> : s \in ParamLists(n - 1), t \in ParamTokens}

\* One declaration around every parameter list.
ParamDeclarations ==
    {Fn("f", ps, "@int", <<>>) : ps \in ParamLists(MaxParamTokens)}

\* Single cases the families above do not contain.
Corpus ==
    { <<OpenParen>>,
      <<IntLit, Colon>>,
      <<Kw("@int")>>,
      <<Kw("loop"), OpenBracket, Kw("continue"), CloseBracket>>,
      <<Kw("if"), OpenBracket, Kw("continue"), CloseBracket>>,
      <<Kw("while"), Kw("loop"), OpenBracket, Kw("if"), OpenBracket,
        Kw("break"), CloseBracket, CloseBracket>>,
      <<Kw("loop"), OpenBracket, Kw("if"), OpenBracket, CloseBracket,
        Kw("else")>>,
      <<Kw("if"), OpenBracket, CloseBracket, Kw("else"), IntLit>>,
      <<Kw("loop"), OpenBracket, Kw("while"), Kw("loop")>>,
      <<Kw("loop"), OpenBracket, Kw("while")>>,
      <<Kw("while"), IntLit>>,
      <<StrLit, StrLit, Id("-")>>,
      <<BoolLit, Kw("int"), Kw("float"), Kw("bool"), Id("-")>>,
      Fn("f", <<>>, "@any", <<Kw("any"), Id("f")>>),
      Fn("f", <<>>, "@int", <<Kw("loop"), OpenBracket, Kw("any"),
                              CloseBracket>>),
      Fn("f", <<Id("t"), Colon>>, "@int", <<>>),
      <<Kw("fn"), Id("f"), OpenParen, Id("t"), Colon>>,
      <<Kw("fn"), Id("f"), OpenParen, Id("t")>>,
      <<Kw("fn"), Id("f"), OpenParen, CloseParen>>,
      <<Kw("fn"), Id("f"), OpenParen, CloseParen, Kw("@bool")>>,
      <<Kw("fn"), Id("f"), IntLit>>,
      <<Kw("while"), Kw("loop"), OpenBracket, Kw("fn"), Id("f")>>,
      <<Id("f"), CloseBracket>> \o Fn("f", <<>>, "@int", <<>>),
      Fn("f", <<>>, "@int", <<>>) \o
          <<Kw("fn"), Id("g"), OpenParen, CloseParen, Kw("@bool"),
            OpenBracket, IntLit, OpenParen>>,
      Fn("f", <<>>, "@int", <<>>) \o
          <<IntLit, Kw("fn"), Id("g"), OpenParen, Id("t")>>,
      <<Id("t")>> \o Fn("f", <<Id("t")>>, "@any", <<Id("t")>>),
      Fn("f", <<Id("t"), Colon, Kw("float")>>, "@str", <<Id("t")>>) \o
          Fn("g", <<Id("u")>>, "@bool", <<Id("u"), Id("t")>>),
      Fn("f", <<Id("valueOf")>>, "@int", <<Id("valueOf")>>) \o
          <<Id("valueOf")>>,
      <<StrLit, Id("constructor")>> \o Fn("constructor", <<>>, "@str", <<>>),
      Fn("f", <<Id("t"), Colon, Kw("float")>>, "@int",
         <<Kw("loop"), OpenBracket, Id("t"), Id("-"), Kw("str"),
           CloseBracket, Id("-")>>),
      Fn("f", <<>>, "@float",
         <<Id("-"), Kw("if"), OpenBracket, Kw("break"), Kw("continue"),
           Id("drop"), CloseBracket, Id("-")>>),
      <<Kw("if"), OpenBracket, CloseBracket, Kw("else"), OpenBracket,
        Kw("fn"), Id("f"), OpenParen, CloseParen, Kw("@int"), OpenBracket,
        CloseBracket, CloseBracket>>,
      <<Kw("foo")>>,
      <<IntLit, Kw("foo")>>,
      <<Kw("loop"), OpenBracket, Tok("Unknown", "?")>>,
      <<Tok("Unknown", "?")>>,
      <<Id("__defineGetter__"), Id("__lookupSetter__")>>,
      Fn("f", <<Id("__proto__"), Colon, Kw("any")>>, "@int",
         <<Id("__proto__")>>),
      Fn("f", <<Id("t"), Colon, Kw("int"), Id("__proto__"), Colon,
                Kw("str")>>, "@int", <<>>),
      Fn("__proto__", <<>>, "@int", <<>>),
      <<Id("body")>> \o
          Fn("__proto__", <<Id("t"), Colon, Kw("str")>>, "@bool", <<Id("t")>>),
      <<IntLit, Id("params")>> \o
          Fn("__proto__", <<Id("stack"), Colon, Kw("int")>>, "@str",
             <<BoolLit>>) }

Inputs ==
    FragmentSeqs(MaxFrags) \cup Programs \cup Redeclarations \cup
    ParamDeclarations \cup Corpus

\* Most calls of typeStack made in one process.
MaxCalls == 2

\* The inputs of the calls after the first: calls and declarations of the
\* names the earlier inputs declare.
LaterInputs ==
    { <<IntLit, Id("f")>>,
      <<FloatLit, Id("g"), Id("drop")>>,
      <<BoolLit, Id("stack"), Id("params")>>,
      <<FloatLit, Id("f")>> \o Fn("f", <<>>, "@float", <<>>),
      Fn("g", <<Id("t")>>, "@any", <<Id("f")>>) }

----------------------------------------------------------------------------

\* The first call of typeStack in a process: the table is the one
\* functions.ts made.  The calls after it are NextCall below.
Init ==
    /\ tokens \in {Place(ts) : ts \in Inputs}
    /\ pointer = 0
    /\ functions = StandardLibraryFunctions
    /\ newFunctions = <<>>
    /\ program = <<>>
    /\ frames = <<>>
    /\ decl = NoDecl
    /\ fnIndex = 1
    /\ visits = <<>>
    /\ result = None
    /\ fired = <<>>
    /\ cursor = Idle
    /\ prototype = ObjectPrototype
    /\ calls = 1
    /\ pc = "scan"

\* typeStack has ended: by a return, by the TypeError of the fire() of a
\* parse error, or by the exception parse() threw.
Ended ==
    \/ pc \in {"returned", "thrown"}
    \/ pc = "done" /\ result.kind = "TypeError"

\* typeStack is called again in the same process.  It hands the same
\* module-level standardLibraryFunctions object to the new Parser, which
\* therefore starts with whatever the earlier calls declared; everything
\* else is made anew by the constructors.
NextCall ==
    /\ Ended
    /\ calls < MaxCalls
    /\ calls' = calls + 1
    /\ tokens' \in {Place(ts) : ts \in LaterInputs}
    /\ pointer' = 0
    /\ newFunctions' = <<>>
    /\ program' = <<>>
    /\ frames' = <<>>
    /\ decl' = NoDecl
    /\ fnIndex' = 1
    /\ visits' = <<>>
    /\ result' = None
    /\ fired' = <<>>
    /\ pc' = "scan"
    /\ UNCHANGED <<functions, prototype>>
    /\ cursor' = Idle

Next ==
    \/ Scan
    \/ ParseCall
    \/ UnexpectedCharacter
    \/ LiteralOrIdentifier
    \/ CloseBracketInRoot
    \/ CloseBracketOfLoop
    \/ CloseBracketOfIf
    \/ CloseBracketOfElse
    \/ CloseBracketOfFunction
    \/ CastKeyword
    \/ FunctionTypeKeyword
    \/ ElseKeyword
    \/ AnyKeyword
    \/ BreakKeyword
    \/ ContinueKeyword
    \/ LoopKeyword
    \/ ForKeyword
    \/ WhileKeyword
    \/ IfKeyword
    \/ UnknownKeyword
    \/ UnknownToken
    \/ FnKeyword
    \/ Parameter
    \/ FunctionType
    \/ EndOfInput
    \/ CheckProgram
    \/ CheckFunction
    \/ CheckDone
    \/ ParseReturned
    \/ TypeCheck
    \/ Interpret
    \/ NextCall

Spec == Init /\ [][Next]_vars

----------------------------------------------------------------------------
(* Properties.                                                             *)

IsExpression(item) == "value" \in DOMAIN item
IsKeyword(item, v) ==
    IsExpression(item) /\ item.type = "Keyword" /\ item.value = v
IsIf(item) == ~IsExpression(item) /\ item.type = "If"
HasElse(item) == IsIf(item) /\ "else" \in DOMAIN item

\* Some activation among the first i is the body of a statement of this site.
Encloses(site, i) == \E j \in 1..i : frames[j].caller.site = site

\* The else blocks of a program, at every depth.
RECURSIVE ElseBlocksFrom(_, _)
ElseBlocks(prog) == ElseBlocksFrom(prog, 1)
ElseBlocksFrom(prog, i) ==
    IF i > Len(prog) THEN <<>>
    ELSE (IF IsExpression(prog[i]) THEN <<>>
          ELSE ElseBlocks(prog[i].block) \o
               (IF HasElse(prog[i])
                THEN <<prog[i].else>> \o ElseBlocks(prog[i].else)
                ELSE <<>>))
         \o ElseBlocksFrom(prog, i + 1)

\* Verifying every else block of prog from Bool finds no error.
ElseBlocksPass(prog, ids) ==
    LET blocks == ElseBlocks(prog) IN
    \A i \in 1..Len(blocks) :
        traverse(blocks[i], ids, "Bool").error.kind # "Error"

\* C1: when parse() returns no error, no else block of the program or of a
\* declared function holds an undeclared identifier or an illegal call when
\* it is verified from Bool: an error in an else block fails verification.
C1_ElseBlockErrorFails ==
    (pc = "done" /\ result.kind = "void") =>
        /\ ElseBlocksPass(program, EmptyObject)
        /\ \A k \in 1..Len(newFunctions) :
               ElseBlocksPass(Function(newFunctions[k]).body,
                              Function(newFunctions[k]).params)

\* A visit of an identifier that names a function of the table and is no
\* declared parameter of the function whose body is traversed.
IsCall(v) ==
    /\ IsExpression(v.item)
    /\ v.item.type = "Identifier"
    /\ v.item.value \in DOMAIN functions
    /\ v.item.value \notin DOMAIN v.ids

\* C2: a call is accepted exactly when the declared stack-type of the
\* function equals the current stack-type or is Any; every other call is
\* the type error parse() returns, positioned at the call.
C2_CallLegalIffTypeMatches ==
    \A i \in 1..Len(visits) :
        IsCall(visits[i]) =>
            LET v == visits[i]
                declared == functions[v.item.value].stack IN
            IF declared = v.before \/ declared = "Any"
            THEN v.error.kind # "Error"
            ELSE /\ v.error = Err(v.item.startPos,
                                  "Attempt to call function not found at stack",
                                  v.item.value)
                 /\ result = v.error

\* C3: break and continue are never refused inside the body of a loop,
\* whether directly or in an if nested in it.
C3_BreakAcceptedInLoop ==
    (/\ result.kind = "Error"
     /\ result.message \in {"Unexpected keyword break",
                            "Unexpected keyword continue"})
        => ~Encloses("loop", Len(frames))

\* C4: every break or continue the parser has accepted into a block lies in
\* the body of some loop.
C4_BreakRejectedOutsideLoop ==
    \A i \in 1..Len(frames) :
        \A k \in 1..Len(frames[i].block) :
            (\/ IsKeyword(frames[i].block[k], "break")
             \/ IsKeyword(frames[i].block[k], "continue"))
                => Encloses("loop", i)

\* C5: any is never refused inside the body of a function.
C5_AnyAcceptedInFunction ==
    (result.kind = "Error" /\ result.message = "Unexpected keyword any")
        => ~Encloses("fn", Len(frames))

\* C6: every any the parser has accepted into a block lies in the body of a
\* function.
C6_AnyRejectedOutsideFunction ==
    \A i \in 1..Len(frames) :
        \A k \in 1..Len(frames[i].block) :
            IsKeyword(frames[i].block[k], "any") => Encloses("fn", i)

\* C7: parse() ends with nothing (the Program is built) or with an Error
\* that carries a position and a message, and in no other way.
C7_ProgramOrError ==
    pc = "done" => result.kind \in {"void", "Error"}

\* C8: when the root activation returns its block, the cursor has consumed
\* every token.
C8_WholeInputConsumed ==
    pc \in {"check", "functions"} => pointer = Len(tokens)

\* The tokens { not closed by a later }, innermost last, among the first n.
RECURSIVE OpenBrackets(_)
OpenBrackets(n) ==
    IF n = 0 THEN <<>>
    ELSE LET before == OpenBrackets(n - 1) IN
         IF tokens[n].type = "OpenBracket"
         THEN Append(before, n)
         ELSE IF tokens[n].type = "CloseBracket" /\ before # <<>>
         THEN SubSeq(before, 1, Len(before) - 1)
         ELSE before

InnermostOpenBracket ==
    LET open == OpenBrackets(Len(tokens)) IN tokens[open[Len(open)]]

\* parse() returned an error with the cursor at the end of the input and a
\* block still open.
EndedInOpenBlock ==
    /\ pc = "done"
    /\ result.kind = "Error"
    /\ Len(frames) > 1
    /\ isAtEnd(pointer)

BracketPairError ==
    Err(InnermostOpenBracket.startPos, "Expected ending bracket pair", "")

\* The input stops after a keyword that still waits for its loop or its {.
EndsInHeader ==
    /\ tokens[Len(tokens)].type = "Keyword"
    /\ tokens[Len(tokens)].value \in {"loop", "for", "while", "if", "else"}

\* C9 as stated: the end of the input inside an open block is always the
\* error Expected ending bracket pair at the { of the innermost open block.
C9_Original_AlwaysBracketPair ==
    EndedInOpenBlock => result = BracketPairError

\* C9: the end of the input inside an open block is the error Expected
\* ending bracket pair at the { of the innermost open block, unless the last
\* token is a keyword waiting for its loop or {: then the error is that
\* keyword's, one column past the end of the last token.
C9_BracketPairAtInnermostOpen ==
    EndedInOpenBlock =>
        IF EndsInHeader
        THEN /\ result.message # "Expected ending bracket pair"
             /\ result.line = tokens[Len(tokens)].endPos.line
             /\ result.char = tokens[Len(tokens)].endPos.char + 1
        ELSE result = BracketPairError

\* Two blocks are open and the error names the inner one.
C9_Witness ==
    /\ EndedInOpenBlock
    /\ ~EndsInHeader
    /\ Len(frames) > 2
    /\ result = BracketPairError
    /\ Len(OpenBrackets(Len(tokens))) > 1

\* The token at cursor p is the keyword else.
ElseAt(p) ==
    /\ p < Len(tokens)
    /\ tokens[p + 1].type = "Keyword"
    /\ tokens[p + 1].value = "else"

\* C10: when the } of a then block is met, an else block is parsed exactly
\* when the next token is else (followed by {, otherwise an error); if not,
\* the If node has only its then block and the cursor is left on the token
\* after the }. The } of an else block completes the node with both blocks.
C10_ElseIffNextTokenIsElse ==
    [][/\ (Dispatching /\ current.type = "CloseBracket"
                       /\ Top.caller.site = "if") =>
            IF ElseAt(pointer + 1)
            THEN IF pointer + 2 < Len(tokens)
                    /\ tokens[pointer + 3].type = "OpenBracket"
                 THEN /\ Len(frames') = Len(frames)
                      /\ frames'[Len(frames)].caller =
                             [site |-> "else", innerBlock |-> Top.block]
                      /\ frames'[Len(frames)].block = <<>>
                      /\ SubSeq(frames', 1, Len(frames) - 1) = Popped
                      /\ pointer' = pointer + 3
                      /\ result' = None
                 ELSE /\ result'.kind = "Error"
                      /\ result'.message =
                           "Expected an opening bracket ({) after an else statement"
                      /\ frames' = Popped
            ELSE /\ frames' = Push(Popped,
                                   [type |-> "If", block |-> Top.block])
                 /\ pointer' = pointer + 1
                 /\ result' = None
       /\ (Dispatching /\ current.type = "CloseBracket"
                       /\ Top.caller.site = "else") =>
            /\ frames' = Push(Popped, [type  |-> "If",
                                       block |-> Top.caller.innerBlock,
                                       else  |-> Top.block])
            /\ pointer' = pointer + 1
      ]_vars

\* An If node with both blocks is followed in its block by the token that
\* came after the } of the else block, and is preceded by an If node
\* without else whose next token was no else.
C10_Witness ==
    /\ Len(frames) = 1
    /\ \E k \in 1..Len(frames[1].block) - 1 :
           /\ HasElse(frames[1].block[k])
           /\ frames[1].block[k].else # <<>>
           /\ IsExpression(frames[1].block[k + 1])

\* The Statements whose body starts from a fixed stack-type, and that type.
FixedStart(type) ==
    CASE type = "ForLoop"   -> "Int"
      [] type = "WhileLoop" -> "Bool"
      [] type = "If"        -> "Bool"

IsStatement(item, types) == ~IsExpression(item) /\ item.type \in types

\* The visits made inside the Statement visited at j: the run of deeper
\* visits that ends right before j.
BodyVisits(j) ==
    {k \in 1..(j - 1) :
        \A m \in k..(j - 1) : visits[m].depth > visits[j].depth}

\* Among them, the visits of the first item of a block of that Statement.
BodyStarts(j) ==
    {k \in BodyVisits(j) :
        visits[k].depth = visits[j].depth + 1 /\ visits[k].index = 1}

\* C11: the body of a ForLoop is verified from Int, the body of a WhileLoop
\* and the then block of an If from Bool, whatever the stack-type before the
\* statement; after the statement the stack-type is Int (ForLoop) or Bool
\* (WhileLoop, If), whatever the body left.
C11_FixedStartAndResult ==
    \A j \in 1..Len(visits) :
        IsStatement(visits[j].item, {"ForLoop", "WhileLoop", "If"}) =>
            LET start == FixedStart(visits[j].item.type) IN
            /\ \A k \in BodyStarts(j) : visits[k].before = start
            /\ visits[j].error.kind # "Error" => visits[j].after = start

\* A ForLoop met on a Float stack whose body leaves Float, and an If met on
\* an Int stack whose then block leaves Int.
C11_Witness ==
    /\ \E j \in 2..Len(visits) :
          /\ IsStatement(visits[j].item, {"ForLoop"})
          /\ visits[j].before = "Float"
          /\ visits[j].after = "Int"
          /\ BodyStarts(j) = {j - 1}
          /\ visits[j - 1].before = "Int"
          /\ visits[j - 1].after = "Float"

RECURSIVE IdentifiersFrom(_, _)

\* The names of the Identifier expressions of a program, at any depth, the
\* else blocks included.
Identifiers(prog) == IdentifiersFrom(prog, 1)

IdentifiersFrom(prog, i) ==
    IF i > Len(prog)
    THEN {}
    ELSE (IF IsExpression(prog[i])
          THEN IF prog[i].type = "Identifier" THEN {prog[i].value} ELSE {}
          ELSE Identifiers(prog[i].block) \cup
               (IF "else" \in DOMAIN prog[i]
                THEN Identifiers(prog[i].else) ELSE {}))
         \cup IdentifiersFrom(prog, i + 1)

\* C12: interpret is reached only when scan() left the tokens, parse()
\* returned no error and typeCheck found none.  At the call of interpret
\* nothing was fired, parse() returned nothing, and every identifier of
\* the root program is an entry of the table and every identifier of a
\* newly declared body is an entry of the table or a parameter of that
\* function.  After a scan error or a type error typeStack has returned
\* without a run error, which only interpret produces; after a parse error
\* it is at the end of parse() or has thrown.
C12_InterpretOnlyAfterSuccess ==
    /\ pc = "interpret" =>
          /\ fired = <<>>
          /\ result.kind = "void"
          /\ Identifiers(program) \subseteq DOMAIN functions
          /\ \A m \in 1..Len(newFunctions) :
                LET fn == Function(newFunctions[m]) IN
                Identifiers(fn.body) \subseteq
                    DOMAIN functions \cup DOMAIN fn.params
    /\ (\E k \in 1..Len(fired) : fired[k] \in {"scan", "type"}) =>
          /\ pc = "returned"
          /\ \A k \in 1..Len(fired) : fired[k] # "run"
    /\ result.kind = "Error" => pc \in {"done", "thrown"}

\* typeStack has returned after a type error that parse() did not find:
\* the program has an If whose then block the verifier accepts and whose
\* else block it rejects.
C12_Witness ==
    /\ pc = "returned"
    /\ result.kind = "void"
    /\ \E k \in 1..Len(fired) : fired[k] = "type"
    /\ \E k \in 1..Len(program) :
           /\ HasElse(program[k])
           /\ verify(program[k].block, EmptyObject, "Bool").kind = "void"
           /\ verify(program[k].else, EmptyObject, "Bool").kind = "Error"

\* The cursor is on a fn keyword.
AtFn == Dispatching /\ current.type = "Keyword" /\ current.value = "fn"

\* C13: a fn keyword met in a nested block (the body of a loop, of an if or
\* else, or of a function) ends parse() with an error at the fn token and
\* leaves the function table and the list of new functions as they were; a
\* fn keyword met at root level never gets that error.
C13_FnOnlyAtRoot ==
    [][AtFn =>
         IF Len(frames) > 1
         THEN /\ result' = Err(current.startPos,
                     "Function declarations must not be nestles in other statements",
                     "fn")
              /\ pc' = "done"
              /\ functions' = functions
              /\ prototype' = prototype
              /\ newFunctions' = newFunctions
         ELSE ~(/\ result'.kind = "Error"
                /\ result'.message =
                     "Function declarations must not be nestles in other statements")
      ]_vars

\* A fn keyword was refused in the else block of an if, two blocks deep.
C13_Witness ==
    /\ pc = "done"
    /\ result.kind = "Error"
    /\ result.message =
           "Function declarations must not be nestles in other statements"
    /\ Len(frames) > 1
    /\ Top.caller.site = "else"
    /\ tokens[pointer + 1].value = "fn"
    /\ result.char = tokens[pointer + 1].startPos.char
    /\ newFunctions = <<>>

\* The fn keywords of the input, in source order; the k-th function
\* registered was declared by the k-th of them.
FnTokens ==
    SelectSeq([i \in 1..Len(tokens) |-> i],
              LAMBDA i : tokens[i].type = "Keyword" /\ tokens[i].value = "fn")

\* The first token of a given type after position i (0 when there is none).
FirstAfter(i, type) ==
    LET later == {m \in (i + 1)..Len(tokens) : tokens[m].type = type} IN
    IF later = {} THEN 0
    ELSE CHOOSE m \in later : \A n \in later : m <= n

\* The function type written in the declaration that starts at token i:
\* the first function-type keyword after it.
WrittenType(i) ==
    LET later == {m \in (i + 1)..Len(tokens) :
                     /\ tokens[m].type = "Keyword"
                     /\ tokens[m].value \in
                          {"@int", "@str", "@float", "@bool", "@any"}} IN
    FunctionTypeOf(tokens[CHOOSE m \in later : \A n \in later : m <= n].value)

\* The last registration of name n.
LastRegistered(n) ==
    CHOOSE k \in 1..Len(newFunctions) :
        /\ newFunctions[k] = n
        /\ \A m \in (k + 1)..Len(newFunctions) : newFunctions[m] # n

Registered == {newFunctions[k] : k \in 1..Len(newFunctions)}

\* The Expressions of a body come from the tokens after position i.
WrittenAfter(body, i) ==
    \A m \in 1..Len(body) :
        IsExpression(body[m]) =>
            body[m].startPos.char > tokens[i].startPos.char

\* C14: every name of newFunctions is a key of the function table; a name
\* declared more than once, or declared over an entry the table was
\* constructed with, holds the definition of its last declaration in source
\* order; and a registration leaves every entry of another name as it was.
C14_LastDeclarationWins ==
    /\ [](\A n \in Registered :
             LET last == FnTokens[LastRegistered(n)] IN
             /\ n \in DOMAIN functions
             /\ n = tokens[last + 1].value
             /\ functions[n].stack = WrittenType(last)
             /\ WrittenAfter(functions[n].body, last))
    /\ [][(calls' = calls /\ newFunctions' # newFunctions) =>
            /\ DOMAIN functions' = DOMAIN functions \cup {Top.caller.name}
            /\ \A n \in DOMAIN functions :
                   n # Top.caller.name => functions'[n] = functions[n]
         ]_vars

\* The fn keywords followed by a name, and the names they declare.
NamedFnTokens ==
    {i \in 1..(Len(tokens) - 1) :
        /\ tokens[i].type = "Keyword"
        /\ tokens[i].value = "fn"
        /\ tokens[i + 1].type = "Identifier"}

DeclaredNames == {tokens[i + 1].value : i \in NamedFnTokens}

\* The last declaration of name n in the source.
LastDeclared(n) ==
    CHOOSE i \in NamedFnTokens :
        /\ tokens[i + 1].value = n
        /\ \A m \in NamedFnTokens : tokens[m + 1].value = n => m <= i

AllRegistered == Len(newFunctions) = Len(FnTokens)

\* C15: when the root program is verified every fn declaration of the
\* source is registered, and a root-level call of a function the source
\* declares, before or after the call, is checked against the type of that
\* declaration: accepted when the type is the current stack-type or Any,
\* the type error at the call otherwise, never an undeclared identifier.
C15_ForwardReferenceResolved ==
    /\ pc = "check" => AllRegistered
    /\ (fnIndex = 1 /\ visits # <<>>) =>
          /\ AllRegistered
          /\ \A j \in 1..Len(visits) :
                LET v == visits[j] IN
                (/\ IsExpression(v.item)
                 /\ v.item.type = "Identifier"
                 /\ v.item.value \in DeclaredNames) =>
                    LET declared == WrittenType(LastDeclared(v.item.value)) IN
                    IF declared = v.before \/ declared = "Any"
                    THEN v.error.kind # "Error"
                    ELSE v.error =
                           Err(v.item.startPos,
                               "Attempt to call function not found at stack",
                               v.item.value)

\* C16: the body of a Loop is verified from the stack-type that is current
\* just before the loop, and the stack-type after the loop is the one before
\* it, whatever the body left.
C16_LoopKeepsStack ==
    \A j \in 1..Len(visits) :
        IsStatement(visits[j].item, {"Loop"}) =>
            /\ \A k \in BodyStarts(j) : visits[k].before = visits[j].before
            /\ visits[j].error.kind # "Error" =>
                   visits[j].after = visits[j].before

\* A Loop met on a Float stack whose body starts on Float and leaves Int.
C16_Witness ==
    \E j \in 2..Len(visits) :
        /\ IsStatement(visits[j].item, {"Loop"})
        /\ visits[j].before = "Float"
        /\ visits[j].after = "Float"
        /\ BodyStarts(j) = {j - 1}
        /\ visits[j - 1].before = "Float"
        /\ visits[j - 1].after = "Int"

\* C17: a call that is accepted leaves the stack-type as it was, and so do
\* break and continue.
C17_CallKeepsStack ==
    \A j \in 1..Len(visits) :
        LET v == visits[j] IN
        (\/ IsCall(v) /\ v.error.kind # "Error"
         \/ IsKeyword(v.item, "break")
         \/ IsKeyword(v.item, "continue"))
            => v.after = v.before

\* The parameter list written in the declaration that starts at token i:
\* the positions between its ( and the first ) after it.
ParameterList(i) == (i + 3)..(FirstAfter(i, "CloseParen") - 1)

\* The identifiers written in it, each at its last occurrence.
WrittenParameters(i) ==
    {m \in ParameterList(i) :
        /\ tokens[m].type = "Identifier"
        /\ \A n \in ParameterList(i) :
               (tokens[n].type = "Identifier" /\ n > m) =>
                   tokens[n].value # tokens[m].value}

\* The identifier at m is followed by a colon and a type keyword.
Annotated(m) ==
    /\ m + 2 <= Len(tokens)
    /\ tokens[m + 1].type = "Colon"
    /\ tokens[m + 2].type = "Keyword"
    /\ tokens[m + 2].value \in {"int", "float", "str", "bool", "any"}

\* C18: every identifier written in the parameter list of a registered
\* function is a key of its parameter mapping, with the annotated type when
\* it is written identifier : type-keyword and with Any when it is written
\* bare; no registered function lacks a parameter that was written.
C18_EveryParameterMapped ==
    \A n \in Registered :
        LET i == FnTokens[LastRegistered(n)]
            params == Function(n).params IN
        \A m \in WrittenParameters(i) :
            /\ tokens[m].value \in DOMAIN params
            /\ Annotated(m) =>
                   params[tokens[m].value] = ParamTypeOf(tokens[m + 2].value)
            /\ tokens[m + 1].type # "Colon" =>
                   params[tokens[m].value] = "Any"

IsIdentifier(item) == IsExpression(item) /\ item.type = "Identifier"

\* C19: an identifier that is a parameter of the function whose body is
\* verified takes the declared type of the parameter as the stack-type, with
\* no call check even when a function has that name; otherwise, when it
\* names a function of the table, the call check applies; otherwise it is
\* the error Undeclared identifier at that token.
C19_ThreeWayResolution ==
    \A j \in 1..Len(visits) :
        LET v == visits[j]
            name == v.item.value IN
        IsIdentifier(v.item) =>
            IF name \in DOMAIN v.ids
            THEN v.error.kind # "Error" /\ v.after = v.ids[name]
            ELSE IF name \in DOMAIN functions
            THEN v.error.kind = "Error" =>
                     /\ v.error.message =
                            "Attempt to call function not found at stack"
                     /\ functions[name].stack \notin {v.before, "Any"}
            ELSE v.error = Err(v.item.startPos, "Undeclared identifier", name)

\* The visits a step adds.
NewVisits == SubSeq(visits', Len(visits) + 1, Len(visits'))

\* Some registered function has a parameter of this name.
ParameterOfSome(name) ==
    \E f \in Registered : name \in DOMAIN Function(f).params

\* C20: the root program is verified with the empty identifier context from
\* Int, and the body of each new function with the parameter mapping of that
\* function from its declared stack-type; a name that is only a parameter of
\* some function, used at root or in the body of another function, is the
\* error Undeclared identifier.
C20_ContextsNotShared ==
    [][visits' # visits =>
         LET fn    == Function(newFunctions[fnIndex])
             ctx   == IF pc = "check" THEN EmptyObject ELSE fn.params
             start == IF pc = "check" THEN "Int" ELSE fn.stack IN
         \A j \in 1..Len(NewVisits) :
             LET v == NewVisits[j] IN
             /\ v.ids = ctx
             /\ (v.depth = 0 /\ v.index = 1) => v.before = start
             /\ (/\ IsIdentifier(v.item)
                 /\ v.item.value \notin DOMAIN ctx
                 /\ v.item.value \notin DOMAIN functions
                 /\ ParameterOfSome(v.item.value)) =>
                    v.error = Err(v.item.startPos, "Undeclared identifier",
                                  v.item.value)
      ]_vars

\* #parseStatement is running: in its dispatch loop or in the parameter
\* loop of a fn header.
Parsing == pc \in {"block", "params"}

\* C21: every iteration of the dispatch loop and of the parameter loop, and
\* the step that leaves either loop, returns from parse() or from the root
\* activation, or leaves the cursor strictly further than it found it, the
\* rewinds of the else lookahead and of the parameter loop included; the
\* cursor never passes the end of the tokens, so parse() terminates.
C21_EveryIterationAdvances ==
    [][Parsing =>
         /\ pointer' > pointer \/ pc' \in {"done", "check"}
         /\ pointer' <= Len(tokens)
      ]_vars

\* The tokens are all parsed, with an if without else and a function with a
\* bare parameter among them: both rewinds were made.
C21_Witness ==
    /\ pc = "check"
    /\ pointer = Len(tokens)
    /\ \E k \in 1..Len(program) : IsIf(program[k]) /\ ~HasElse(program[k])
    /\ \E n \in Registered :
          \E t \in DOMAIN Function(n).params : Function(n).params[t] = "Any"

\* parse() returned a structural error: an activation of #parseStatement
\* was left by return new Error.
ParseFailed == result.kind = "Error" /\ frames # <<>>

\* The declarations whose body is closed among the first n tokens: the fn
\* keywords followed, before n, by a { that is no longer open at n.
ClosedDeclarations(n) ==
    LET open == OpenBrackets(n) IN
    {k \in 1..Len(FnTokens) :
        LET o == FirstAfter(FnTokens[k], "OpenBracket") IN
        /\ o # 0
        /\ o <= n
        /\ \A m \in 1..Len(open) : open[m] # o}

\* The cursor is on the } that closes the body of a function.
AtEndOfFunctionBody ==
    /\ Dispatching
    /\ current.type = "CloseBracket"
    /\ Top.caller.site = "fn"

\* C22: within a call, the function table (its prototype included) and the
\* list of new functions change only in the step that closes the body of a
\* function, after its header and body were
\* parsed without an error; a step that returns a structural error changes
\* neither; and when parse() has returned a structural error the functions
\* registered are those of the declarations closed before it, program is the
\* empty program and nothing was verified.
C22_RegisteredAfterBody ==
    /\ [](ParseFailed =>
            /\ program = <<>>
            /\ visits = <<>>
            /\ Len(newFunctions) = Cardinality(ClosedDeclarations(pointer)))
    /\ [][calls' = calls =>
            /\ (\/ functions' # functions
                \/ prototype' # prototype
                \/ newFunctions' # newFunctions) =>
                   /\ AtEndOfFunctionBody
                   /\ result' = None
                   /\ newFunctions' = Append(newFunctions, Top.caller.name)
                   /\ (IF Top.caller.name = "__proto__"
                       THEN prototype' ELSE functions'[Top.caller.name]).body
                          = Top.block
            /\ (Parsing /\ result'.kind = "Error") =>
                   /\ functions' = functions
                   /\ prototype' = prototype
                   /\ newFunctions' = newFunctions
                   /\ program' = <<>>
            /\ visits' # visits =>
                   ~ParseFailed /\ pc \in {"check", "functions"}
         ]_vars

\* A declaration was registered, and parse() then returned a structural
\* error from the body of a second declaration, which is not registered.
C22_Witness ==
    /\ ParseFailed
    /\ Len(newFunctions) = 1
    /\ Len(FnTokens) > 1
    /\ Encloses("fn", Len(frames))
    /\ Top.block # <<>>
    /\ program = <<>>

\* C23: with at least one token, the cursor and every value it takes within
\* a step lie between 0 and the number of tokens, and every #peek made at
\* the end of the input is made with the cursor on the number of tokens, so
\* that tokens[pointer - 1] is the last token and the position made up for
\* the end of the input is one column past its end.
C23_CursorInRange ==
    Len(tokens) > 0 =>
        /\ pointer \in 0..Len(tokens)
        /\ cursor.moved \subseteq 0..Len(tokens)
        /\ \A q \in cursor.peeked :
               /\ q \in 0..Len(tokens)
               /\ isAtEnd(q) =>
                      /\ q = Len(tokens)
                      /\ peek(q).startPos =
                           [line |-> tokens[Len(tokens)].endPos.line,
                            char |-> tokens[Len(tokens)].endPos.char + 1]

\* The parameter loop met the end of the input after identifier : and made
\* its #peek there.
C23_Witness ==
    /\ pc = "params"
    /\ Len(tokens) \in cursor.peeked
    /\ pointer = Len(tokens)
    /\ tokens[Len(tokens)].type = "Colon"

====
